---- MODULE Spec2Model ----
(***************************************************************************)
(* API monitor (krishnaju07/api_track_changes).                            *)
(*                                                                         *)
(* The repository holds two builds of the App component:                   *)
(*   - the in-page build (src/unnamed/part_001): App keeps the recurring   *)
(*     timers itself (state `intervals`) and polls with fetchData;         *)
(*   - the worker build (src/unnamed/part_000 with                         *)
(*     src/public/monitorWorker.js): the timers live in a Web Worker that  *)
(*     is driven by START_MONITOR / STOP_MONITOR messages and answers with *)
(*     UPDATE_DATA / ERROR messages.                                       *)
(* `build` says which of the two is loaded; both share the registry        *)
(* (`monitors`), the selection and the localStorage key "apiMonitors".     *)
(*                                                                         *)
(* Every event handler runs to completion and React re-renders before the  *)
(* next event, so a handler sees the state of the latest render; what a    *)
(* timer callback or a pending fetch sees is the `monitor` object its      *)
(* closure captured when the timer was created.  The selection             *)
(* (selectedMonitor) only says which monitor the next handler is called    *)
(* for: a step below is "the user selects a monitor and ...".              *)
(*                                                                         *)
(* The pure functions of part_001 (extractRelevantData, getSlugFromData,   *)
(* getNameFromData) are also called on their own, in PureSpec, on bodies   *)
(* and filters the page build's few responses do not cover.                *)
(***************************************************************************)
EXTENDS Integers, Sequences, FiniteSets, TLC

(***************************************************************************)
(* Bounds of the model.                                                    *)
(***************************************************************************)
MaxMonitors == 2      \* monitors in the registry
MaxClock == 2         \* values Date.now() takes
MaxIntervalId == 2    \* setInterval calls per page load
MaxInflight == 1      \* fetches awaiting their response
MaxQueue == 1         \* messages in flight in either direction (worker build)
MaxEdits == 2         \* edits the user makes
MaxTicks == 1         \* times a recurring timer fires
MaxReloads == 1       \* times the page is loaded again
MaxItems == 2         \* entries of a list in a response body (pure calls)

(***************************************************************************)
(* JavaScript values.  Strings are strings; `undefined` and `null` in a    *)
(* string position are the markers below (a template literal prints null   *)
(* as "null").  Parsed JSON is tagged with its kind.                       *)
(***************************************************************************)
Undefined == "undefined"
JSNull == "null"

Null == [kind |-> "null"]
Num == [kind |-> "number"]      \* a number other than 0
Obj(fields) == [kind |-> "object", fields |-> fields]
Arr(items) == [kind |-> "array", items |-> items]

\* data.key for a parsed value: undefined unless data is an object with key.
Get(data, key) ==
    IF data.kind = "object" /\ key \in DOMAIN data.fields
    THEN data.fields[key] ELSE Undefined

\* JavaScript truthiness of a string-position value / of a parsed value.
TruthyStr(s) == s # Undefined /\ s # JSNull /\ s # ""
Truthy(data) == data.kind # "null"

\* The TypeError a call of a property that is not a function throws.
TypeError == [kind |-> "TypeError"]

\* Numbers that are not counts of seconds: parseInt of a field that holds no
\* digits is NaN, and JSON writes NaN as null.
NaN == 0 - 1
NullNumber == 0 - 2

\* interval * 1000: NaN stays NaN and null counts as 0.
Times1000(interval) ==
    IF interval = NaN THEN NaN
    ELSE IF interval = NullNumber THEN 0
    ELSE interval * 1000

\* a ?? b for string-position values: what a || b would be, had it been
\* written with the nullish operator.
OrNullish(a, b) == IF a # Undefined /\ a # JSNull THEN a ELSE b

\* a || b for string-position values
Or(a, b) == IF TruthyStr(a) THEN a ELSE b

(***************************************************************************)
(* getSlugFromData / getNameFromData                                       *)
(***************************************************************************)
getSlugFromData(data) ==
    IF ~Truthy(data) THEN JSNull
    ELSE Or(Get(data, "slug"), Or(Get(data, "name"), JSNull))

getNameFromData(data) ==
    IF ~Truthy(data) THEN JSNull
    ELSE Or(Get(data, "name"),
            Or(Get(data, "displayName"), Or(Get(data, "title"), JSNull)))

(***************************************************************************)
(* extractRelevantData(data, id).  Array.prototype.find returns the first  *)
(* match or undefined; undefined and null are both falsy for the caller    *)
(* and are both written Null here.  data.queues.find is a function only    *)
(* when data.queues is an array: the call throws a TypeError otherwise.    *)
(***************************************************************************)
RECURSIVE Find(_, _, _)
Find(items, id, keys) ==
    IF items = <<>> THEN Null
    ELSE IF \E k \in keys : Get(Head(items), k) = id THEN Head(items)
    ELSE Find(Tail(items), id, keys)

extractRelevantData(data, id) ==
    IF data.kind = "object" /\ "queues" \in DOMAIN data.fields
       /\ Truthy(data.fields.queues)
    THEN IF id # ""
         THEN IF data.fields.queues.kind = "array"
              THEN Find(data.fields.queues.items, id, {"name"})
              ELSE TypeError
         ELSE data.fields.queues
    ELSE IF data.kind = "array"
    THEN IF id # "" THEN Find(data.items, id, {"id", "name"}) ELSE data
    ELSE IF data.kind = "object"
    THEN IF id # ""
         THEN IF Get(data, "id") = id \/ Get(data, "name") = id
              THEN data ELSE Null
         ELSE data
    ELSE Null

(***************************************************************************)
(* Inputs: what the user types and what the network answers.               *)
(***************************************************************************)
Names == {"n"}
Urls == {"", "u"}
Filters == {"a"}
Intervals == {10, NaN}

RecA1 == Obj([id |-> "a", name |-> "a", slug |-> "v1"])
RecA2 == Obj([id |-> "a", name |-> "a", slug |-> "v2"])
Bodies == {RecA1, RecA2, Num}

\* The text of a response: JSON, the script `window.queueFair.settings = {..};`
\* around an object literal that is JSON or is not, or anything else.
Texts ==
    [fmt : {"json"}, body : Bodies]
    \cup [fmt : {"settings"}, body : {RecA2}]
    \cup {[fmt |-> "settingsBad"], [fmt |-> "other"]}

\* What `await fetch(url)` gives: a rejection, or a response.
Responses ==
    {[rejected |-> TRUE]}
    \cup {[rejected |-> FALSE, ok |-> FALSE, status |-> "500"]}
    \cup [rejected : {FALSE}, ok : {TRUE}, status : {"200"}, text : Texts]

(***************************************************************************)
(* State.                                                                  *)
(***************************************************************************)
VARIABLES
    build,            \* "page": part_001; "worker": part_000 + monitorWorker.js
    clock,            \* the last value Date.now() returned
    store,            \* localStorage item "apiMonitors"
    monitors,         \* useState: the registry, an array of monitor objects
    intervals,        \* useState (part_001): monitor id -> interval id
    nextIntervalId,   \* the id the next setInterval call returns
    timers,           \* the active setInterval timers of the page or worker
    inflight,         \* fetches awaiting their response, with their closure
                      \* (and, as history, whether the monitor of the id
                      \* was deleted since the fetch was issued)
    workerMonitors,   \* self.monitors of monitorWorker.js
    toWorker,         \* messages posted to the worker, not yet handled
    toMain,           \* message events posted by the worker, not yet handled
                      \* (with the same history)
    toasts,           \* notifications emitted by the last step
    polled,           \* ids of the monitors the last step began a poll cycle for
    edits,            \* edits made so far
    ticks,            \* timer firings so far
    reloads,          \* page loads so far
    call              \* one call of a pure function: its arguments and result

app == <<build, clock, store, monitors, intervals,
         nextIntervalId, timers, inflight, workerMonitors, toWorker, toMain,
         toasts, polled, edits, ticks, reloads>>

vars == <<app, call>>

NoIntervals == [k \in {} |-> 0]

Toast(level, text) == [level |-> level, text |-> text]

\* { ...monitor, ...updates }
Spread(monitor, updates) ==
    [k \in DOMAIN monitor |->
        IF k \in DOMAIN updates THEN updates[k] ELSE monitor[k]]

\* What the closure of a timer callback or of a pending fetch reads of the
\* `monitor` object it captured.
Captured(monitor) ==
    [id |-> monitor.id, name |-> monitor.name, apiUrl |-> monitor.apiUrl,
     filterId |-> monitor.filterId, interval |-> monitor.interval,
     previousData |-> monitor.previousData]

\* The part of the state one run of a handler of part_001 reads and writes.
Page ==
    [monitors |-> monitors, intervals |-> intervals, timers |-> timers,
     inflight |-> inflight, nextIntervalId |-> nextIntervalId,
     toasts |-> <<>>, polled |-> <<>>, setMonitors |-> FALSE]

(***************************************************************************)
(* part_001: clearMonitorInterval.  `seen` is the `intervals` of the render *)
(* whose closure runs; the state update itself is functional.               *)
(***************************************************************************)
clearMonitorInterval(pg, seen, monitorId) ==
    IF monitorId \in DOMAIN seen
    THEN [pg EXCEPT
            !.timers = {t \in pg.timers : t.intervalId # seen[monitorId]},
            !.intervals = [k \in (DOMAIN pg.intervals) \ {monitorId} |->
                              pg.intervals[k]]]
    ELSE pg

(***************************************************************************)
(* part_001: updateMonitor                                                  *)
(***************************************************************************)
updateMonitor(pg, seen, id, updates) ==
    LET clears == /\ \E i \in 1..Len(pg.monitors) : pg.monitors[i].id = id
                  /\ \/ "interval" \in DOMAIN updates
                     \/ ("isRunning" \in DOMAIN updates /\ ~updates.isRunning)
        cleared == IF clears THEN clearMonitorInterval(pg, seen, id) ELSE pg
    IN  [cleared EXCEPT
            !.setMonitors = TRUE,
            !.monitors = [i \in 1..Len(pg.monitors) |->
                IF pg.monitors[i].id = id
                THEN Spread(pg.monitors[i], updates)
                ELSE pg.monitors[i]]]

(***************************************************************************)
(* part_001: fetchData up to `await fetch(...)`.                            *)
(***************************************************************************)
fetchData(pg, monitor) ==
    LET began == [pg EXCEPT !.polled = Append(@, monitor.id)]
    IN  IF monitor.apiUrl = ""
        THEN [began EXCEPT !.toasts = Append(@,
                Toast("error", "Please enter an API URL for " \o monitor.name))]
        ELSE [began EXCEPT !.inflight =
                Append(@, [monitor |-> monitor, deleted |-> FALSE])]

(***************************************************************************)
(* part_001: startMonitor                                                   *)
(***************************************************************************)
startMonitor(pg, seen, monitor) ==
    LET fetched == fetchData(pg, Captured(monitor))
        intervalId == fetched.nextIntervalId
        scheduled == [fetched EXCEPT
            !.timers = @ \cup {[intervalId |-> intervalId,
                                monitor |-> Captured(monitor),
                                ms |-> Times1000(monitor.interval)]},
            !.nextIntervalId = @ + 1,
            !.intervals = [k \in (DOMAIN @) \cup {monitor.id} |->
                IF k = monitor.id THEN intervalId ELSE @[k]]]
    IN  updateMonitor(scheduled, seen, monitor.id, [isRunning |-> TRUE])

(***************************************************************************)
(* part_001: fetchData after `await fetch(...)`: the try block from the     *)
(* response check on, and the catch.                                        *)
(***************************************************************************)
\* JSON.parse(text), else the window.queueFair.settings fallback; the result
\* is the parsed data or the message of the Error thrown.
ParseText(text) ==
    IF text.fmt = "json" THEN [thrown |-> FALSE, data |-> text.body]
    ELSE IF text.fmt = "settings" THEN [thrown |-> FALSE, data |-> text.body]
    ELSE IF text.fmt = "settingsBad"
    THEN [thrown |-> TRUE, message |-> "Failed to parse response data"]
    ELSE [thrown |-> TRUE, message |-> "Unsupported response format"]

\* Caught, had it given up the monitor's timer on an error.
CaughtClearsTimer(pg, monitor, message) ==
    LET reported == [pg EXCEPT !.toasts = Append(@,
            Toast("error", "Error in " \o monitor.name \o ": " \o message))]
    IN  clearMonitorInterval(reported, pg.intervals, monitor.id)

\* Caught, had it dropped the monitor's snapshot on an error.
CaughtDropsSnapshot(pg, monitor, message) ==
    [pg EXCEPT
        !.toasts = Append(@,
            Toast("error", "Error in " \o monitor.name \o ": " \o message)),
        !.setMonitors = TRUE,
        !.monitors = [i \in 1..Len(pg.monitors) |->
            IF pg.monitors[i].id = monitor.id
            THEN [pg.monitors[i] EXCEPT !.previousData = Null]
            ELSE pg.monitors[i]]]

Caught(pg, monitor, message) ==
    [pg EXCEPT !.toasts = Append(@,
        Toast("error", "Error in " \o monitor.name \o ": " \o message))]

\* fetchDataResume, had it recorded a difference whenever there was a
\* previous snapshot, changed slug or not.
fetchDataResumeAlways(pg, seen, monitor, response) ==
    LET record == IF response.rejected \/ ~response.ok THEN Null
                  ELSE IF ParseText(response.text).thrown THEN Null
                  ELSE extractRelevantData(ParseText(response.text).data,
                                           monitor.filterId)
    IN  IF record = TypeError \/ ~Truthy(record)
        THEN Caught(pg, monitor, "Failed to fetch")
        ELSE IF Truthy(monitor.previousData)
        THEN updateMonitor(pg, seen, monitor.id,
                [differences |->
                    [name |-> getNameFromData(record),
                     url |-> monitor.apiUrl \o "/" \o getSlugFromData(record),
                     slug_difference |->
                        [previous |-> getSlugFromData(monitor.previousData),
                         current |-> getSlugFromData(record)]],
                 previousData |-> record])
        ELSE updateMonitor(pg, seen, monitor.id, [previousData |-> record])

fetchDataResume(pg, seen, monitor, response) ==
    IF response.rejected THEN Caught(pg, monitor, "Failed to fetch")
    ELSE IF ~response.ok
    THEN Caught(pg, monitor, "HTTP error! status: " \o response.status)
    ELSE LET parsed == ParseText(response.text) IN
    IF parsed.thrown THEN Caught(pg, monitor, parsed.message)
    ELSE LET relevantData == extractRelevantData(parsed.data, monitor.filterId) IN
    IF relevantData = TypeError
    THEN Caught(pg, monitor, "data.queues.find is not a function")
    ELSE IF ~Truthy(relevantData)
    THEN [pg EXCEPT !.toasts = Append(@, Toast("error",
            "No data found for the specified ID in " \o monitor.name))]
    ELSE LET currentSlug == getSlugFromData(relevantData)
             previousSlug == IF Truthy(monitor.previousData)
                             THEN getSlugFromData(monitor.previousData)
                             ELSE JSNull
         IN
    IF Truthy(monitor.previousData) /\ currentSlug # previousSlug
    THEN LET difference ==
                [name |-> getNameFromData(relevantData),
                 url |-> monitor.apiUrl \o "/" \o currentSlug,
                 slug_difference |->
                    [previous |-> previousSlug, current |-> currentSlug]]
             updated == updateMonitor(pg, seen, monitor.id,
                [differences |-> difference, previousData |-> relevantData])
         IN [updated EXCEPT !.toasts = Append(@, Toast("success",
                "Changes detected in " \o monitor.name \o "!"))]
    ELSE updateMonitor(pg, seen, monitor.id, [previousData |-> relevantData])

(***************************************************************************)
(* Steps.  A step that calls setMonitors re-renders with a new `monitors`   *)
(* array, so the save effect writes it to localStorage.                     *)
(***************************************************************************)
\* JSON.stringify of the registry and JSON.parse of the stored text.  The
\* text is written as the array of the values it spells; every value of a
\* monitor is spelled as it is, except NaN, which is spelled null.
JSONstringify(value) ==
    [i \in 1..Len(value) |->
        [value[i] EXCEPT !.interval = IF @ = NaN THEN NullNumber ELSE @]]
JSONparse(text) == text

\* monitors.find(m => m.id === selectedMonitor)
RECURSIVE FindMonitor(_, _)
FindMonitor(ms, id) ==
    IF ms = <<>> THEN Null
    ELSE IF Head(ms).id = id THEN Head(ms)
    ELSE FindMonitor(Tail(ms), id)

\* The ids the user can select; a handler below runs for the monitor the
\* user selected, selectedMonitorData.
MonitorIds == {monitors[i].id : i \in 1..Len(monitors)}
selectedMonitorData(selectedMonitor) == FindMonitor(monitors, selectedMonitor)

\* History: the pending fetches and message events of id are those of a
\* monitor that has been deleted.
MarkDeleted(pending, id) ==
    [i \in 1..Len(pending) |->
        IF pending[i].monitor.id = id
        THEN [pending[i] EXCEPT !.deleted = TRUE] ELSE pending[i]]

MarkDeletedEvents(events, id) ==
    [i \in 1..Len(events) |->
        IF events[i].data.monitorId = id
        THEN [events[i] EXCEPT !.deleted = TRUE] ELSE events[i]]

\* Remove the i-th element of a sequence.
Remove(seq, i) == SubSeq(seq, 1, i - 1) \o SubSeq(seq, i + 1, Len(seq))

WorkerUnchanged == UNCHANGED <<workerMonitors, toWorker, toMain>>
Budgets == UNCHANGED <<edits, ticks, reloads>>

\* The state a handler of part_001 leaves behind; the save effect runs when
\* setMonitors was called.
Commit(pg) ==
    /\ monitors' = pg.monitors
    /\ store' = IF pg.setMonitors THEN JSONstringify(pg.monitors) ELSE store
    /\ intervals' = pg.intervals
    /\ timers' = pg.timers
    /\ inflight' = pg.inflight
    /\ nextIntervalId' = pg.nextIntervalId
    /\ toasts' = pg.toasts
    /\ polled' = pg.polled

\* part_001 and part_000: addNewMonitor, at time `now`
addNewMonitorAt(now) ==
    /\ Len(monitors) < MaxMonitors
    /\ LET newMonitor ==
                [id |-> ToString(now),
                 name |-> "Monitor " \o ToString(Len(monitors) + 1),
                 apiUrl |-> "", filterId |-> "", interval |-> 30,
                 isRunning |-> FALSE,
                 previousData |-> Null, differences |-> Null]
       IN  /\ clock' = now
           /\ monitors' = Append(monitors, newMonitor)
           /\ store' = JSONstringify(monitors')
    /\ toasts' = <<>>
    /\ polled' = <<>>
    /\ UNCHANGED <<call, build, intervals, nextIntervalId, timers, inflight>>
    /\ WorkerUnchanged
    /\ Budgets

addNewMonitor == \E now \in clock..MaxClock : addNewMonitorAt(now)

\* part_001: the onChange handlers of the four inputs
EditUpdates ==
    [name : Names] \cup [apiUrl : Urls] \cup [filterId : Filters]
    \cup [interval : Intervals]

editMonitorTo(selectedMonitor, updates) ==
    /\ build = "page"
    /\ selectedMonitor \in MonitorIds
    /\ edits < MaxEdits
    /\ edits' = edits + 1
    /\ Commit(updateMonitor(Page, intervals, selectedMonitor, updates))
    /\ UNCHANGED <<call, build, clock, ticks, reloads>>
    /\ WorkerUnchanged

editMonitor ==
    \E id \in MonitorIds, updates \in EditUpdates : editMonitorTo(id, updates)

\* part_001: deleteMonitor
deleteMonitorOf(id) ==
    /\ build = "page"
    /\ id \in MonitorIds
    /\ LET cleared == clearMonitorInterval(Page, intervals, id)
           kept == SelectSeq(cleared.monitors, LAMBDA m : m.id # id)
       IN  Commit([cleared EXCEPT !.monitors = kept, !.setMonitors = TRUE,
                                  !.inflight = MarkDeleted(@, id)])
    /\ UNCHANGED <<call, build, clock>>
    /\ WorkerUnchanged
    /\ Budgets

deleteMonitor == \E id \in MonitorIds : deleteMonitorOf(id)

\* part_001: toggleMonitor, the branch that starts
toggleMonitorStart(monitor) ==
    /\ build = "page"
    /\ ~monitor.isRunning
    /\ nextIntervalId <= MaxIntervalId
    /\ monitor.apiUrl # "" => Len(inflight) < MaxInflight
    /\ Commit(startMonitor(Page, intervals, monitor))
    /\ UNCHANGED <<call, build, clock>>
    /\ WorkerUnchanged
    /\ Budgets

\* part_001: toggleMonitor, the branch that stops
toggleMonitorStop(monitor) ==
    /\ build = "page"
    /\ monitor.isRunning
    /\ Commit(updateMonitor(clearMonitorInterval(Page, intervals, monitor.id),
                            intervals, monitor.id, [isRunning |-> FALSE]))
    /\ UNCHANGED <<call, build, clock>>
    /\ WorkerUnchanged
    /\ Budgets

toggleMonitor ==
    \E id \in MonitorIds :
        \/ toggleMonitorStart(selectedMonitorData(id))
        \/ toggleMonitorStop(selectedMonitorData(id))

\* part_001: the recurring timer t fires: () => fetchData(monitor)
timerFiresOf(t) ==
    /\ build = "page"
    /\ t \in timers
    /\ ticks < MaxTicks
    /\ ticks' = ticks + 1
    /\ t.monitor.apiUrl # "" => Len(inflight) < MaxInflight
    /\ Commit(fetchData(Page, t.monitor))
    /\ UNCHANGED <<call, build, clock, edits, reloads>>
    /\ WorkerUnchanged

timerFires == \E t \in timers : timerFiresOf(t)

\* part_001: the response of the i-th pending fetch arrives.  The updates
\* fetchData passes to updateMonitor never make it read the closure's
\* `intervals`.
fetchReturnsWith(i, response) ==
    /\ build = "page"
    /\ i \in 1..Len(inflight)
    /\ Commit(fetchDataResume([Page EXCEPT !.inflight = Remove(inflight, i)],
                              NoIntervals, inflight[i].monitor, response))
    /\ UNCHANGED <<call, build, clock>>
    /\ WorkerUnchanged
    /\ Budgets

fetchReturns ==
    \E i \in 1..Len(inflight), response \in Responses :
        fetchReturnsWith(i, response)

\* part_001: the page is loaded again; the mount effects restore the registry
\* and start every monitor saved as running, with the closures of the first
\* render (intervals = {}).
RECURSIVE Restart(_, _)
Restart(pg, parsedMonitors) ==
    IF parsedMonitors = <<>> THEN pg
    ELSE LET monitor == Head(parsedMonitors) IN
         Restart(IF monitor.isRunning
                 THEN startMonitor(pg, NoIntervals, monitor) ELSE pg,
                 Tail(parsedMonitors))

Running(ms) == SelectSeq(ms, LAMBDA m : m.isRunning)

reload ==
    /\ build = "page"
    /\ reloads < MaxReloads
    /\ reloads' = reloads + 1
    /\ LET parsedMonitors == JSONparse(store)
           fresh == [monitors |-> parsedMonitors, intervals |-> NoIntervals,
                     timers |-> {}, inflight |-> <<>>, nextIntervalId |-> 1,
                     toasts |-> <<>>, polled |-> <<>>, setMonitors |-> TRUE]
       IN  /\ Len(Running(parsedMonitors)) <= MaxIntervalId
           /\ Len(SelectSeq(Running(parsedMonitors),
                            LAMBDA m : m.apiUrl # "")) <= MaxInflight
           /\ Commit(Restart(fresh, parsedMonitors))
    /\ UNCHANGED <<call, build, clock, edits, ticks>>
    /\ WorkerUnchanged

(***************************************************************************)
(* The worker build: part_000 and monitorWorker.js.                         *)
(***************************************************************************)
\* part_000: updateMonitor
updateMonitorW(ms, id, updates) ==
    [i \in 1..Len(ms) |->
        IF ms[i].id = id THEN Spread(ms[i], updates) ELSE ms[i]]

\* part_000: the onChange handlers of the two inputs
EditUpdatesW == [name : Names] \cup [apiUrl : Urls]

editMonitorWTo(selectedMonitor, updates) ==
    /\ build = "worker"
    /\ selectedMonitor \in MonitorIds
    /\ updates \in EditUpdatesW
    /\ edits < MaxEdits
    /\ edits' = edits + 1
    /\ monitors' = updateMonitorW(monitors, selectedMonitor, updates)
    /\ store' = JSONstringify(monitors')
    /\ toasts' = <<>>
    /\ polled' = <<>>
    /\ UNCHANGED <<call, build, clock, intervals, nextIntervalId,
                   timers, inflight, workerMonitors, toWorker, toMain,
                   ticks, reloads>>

editMonitorW ==
    \E id \in MonitorIds, updates \in EditUpdatesW : editMonitorWTo(id, updates)

\* part_000: deleteMonitor
deleteMonitorWOf(id) ==
    /\ build = "worker"
    /\ id \in MonitorIds
    /\ Len(toWorker) < MaxQueue
    /\ toWorker' = Append(toWorker,
            [type |-> "STOP_MONITOR", monitor |-> [id |-> id]])
    /\ monitors' = SelectSeq(monitors, LAMBDA m : m.id # id)
    /\ store' = JSONstringify(monitors')
    /\ inflight' = MarkDeleted(inflight, id)
    /\ toMain' = MarkDeletedEvents(toMain, id)
    /\ toasts' = <<>>
    /\ polled' = <<>>
    /\ UNCHANGED <<call, build, clock, intervals, nextIntervalId, timers,
                   workerMonitors>>
    /\ Budgets

deleteMonitorW == \E id \in MonitorIds : deleteMonitorWOf(id)

\* part_000: toggleMonitor, the branch that starts
toggleMonitorWStart(monitor) ==
    /\ build = "worker"
    /\ ~monitor.isRunning
    /\ Len(toWorker) < MaxQueue
    /\ toWorker' = Append(toWorker,
            [type |-> "START_MONITOR", monitor |-> Captured(monitor)])
    /\ monitors' = updateMonitorW(monitors, monitor.id, [isRunning |-> TRUE])
    /\ store' = JSONstringify(monitors')
    /\ toasts' = <<>>
    /\ polled' = <<>>
    /\ UNCHANGED <<call, build, clock, intervals, nextIntervalId, timers, inflight,
                   workerMonitors, toMain>>
    /\ Budgets

\* part_000: toggleMonitor, the branch that stops
toggleMonitorWStop(monitor) ==
    /\ build = "worker"
    /\ monitor.isRunning
    /\ Len(toWorker) < MaxQueue
    /\ toWorker' = Append(toWorker,
            [type |-> "STOP_MONITOR", monitor |-> Captured(monitor)])
    /\ monitors' = updateMonitorW(monitors, monitor.id, [isRunning |-> FALSE])
    /\ store' = JSONstringify(monitors')
    /\ toasts' = <<>>
    /\ polled' = <<>>
    /\ UNCHANGED <<call, build, clock, intervals, nextIntervalId, timers, inflight,
                   workerMonitors, toMain>>
    /\ Budgets

toggleMonitorW ==
    \E id \in MonitorIds :
        \/ toggleMonitorWStart(selectedMonitorData(id))
        \/ toggleMonitorWStop(selectedMonitorData(id))

\* monitorWorker.js: self.onmessage
workerOnmessage ==
    /\ build = "worker"
    /\ toWorker # <<>>
    /\ LET type == Head(toWorker).type
           monitor == Head(toWorker).monitor
           known == {i \in 1..Len(workerMonitors) :
                        workerMonitors[i].id = monitor.id}
       IN  IF type = "START_MONITOR"
           THEN IF known # {}
                THEN UNCHANGED <<nextIntervalId, timers, workerMonitors>>
                ELSE /\ nextIntervalId <= MaxIntervalId
                     /\ timers' = timers \cup
                            {[intervalId |-> nextIntervalId,
                              monitor |-> monitor,
                              ms |-> Times1000(monitor.interval)]}
                     /\ nextIntervalId' = nextIntervalId + 1
                     /\ workerMonitors' = Append(workerMonitors,
                            [id |-> monitor.id, intervalId |-> nextIntervalId])
           ELSE IF known # {}
                THEN LET index == CHOOSE i \in known : \A j \in known : i <= j
                     IN  /\ timers' = {t \in timers : t.intervalId #
                                          workerMonitors[index].intervalId}
                         /\ workerMonitors' = Remove(workerMonitors, index)
                         /\ UNCHANGED nextIntervalId
                ELSE UNCHANGED <<nextIntervalId, timers, workerMonitors>>
    /\ toWorker' = Tail(toWorker)
    /\ toasts' = <<>>
    /\ polled' = <<>>
    /\ UNCHANGED <<call, build, clock, store, monitors, intervals,
                   inflight, toMain>>
    /\ Budgets

\* monitorWorker.js: the recurring timer t fires, up to `await fetch(...)`
workerTimerFiresOf(t) ==
    /\ build = "worker"
    /\ t \in timers
    /\ ticks < MaxTicks
    /\ ticks' = ticks + 1
    /\ Len(inflight) < MaxInflight
    /\ inflight' = Append(inflight, [monitor |-> t.monitor, deleted |-> FALSE])
    /\ polled' = <<t.monitor.id>>
    /\ toasts' = <<>>
    /\ UNCHANGED <<call, build, clock, store, monitors, intervals,
                   nextIntervalId, timers, workerMonitors, toWorker, toMain,
                   edits, reloads>>

workerTimerFires == \E t \in timers : workerTimerFiresOf(t)

\* monitorWorker.js: the response arrives; the rest of the try, and the catch
workerReply(monitor, response) ==
    IF response.rejected
    THEN [type |-> "ERROR", monitorId |-> monitor.id,
          error |-> "Failed to fetch"]
    ELSE IF ~response.ok
    THEN [type |-> "ERROR", monitorId |-> monitor.id,
          error |-> "HTTP " \o response.status]
    ELSE IF response.text.fmt = "json"
    THEN [type |-> "UPDATE_DATA", monitorId |-> monitor.id,
          data |-> response.text.body]
    ELSE [type |-> "ERROR", monitorId |-> monitor.id,
          error |-> "Unexpected token"]

workerFetchReturns ==
    /\ build = "worker"
    /\ Len(toMain) < MaxQueue
    /\ \E i \in 1..Len(inflight), response \in Responses :
        /\ inflight' = Remove(inflight, i)
        /\ toMain' = Append(toMain,
                [data |-> workerReply(inflight[i].monitor, response),
                 deleted |-> inflight[i].deleted])
    /\ toasts' = <<>>
    /\ polled' = <<>>
    /\ UNCHANGED <<call, build, clock, store, monitors, intervals,
                   nextIntervalId, timers, workerMonitors, toWorker>>
    /\ Budgets

\* part_000: monitorWorker.onmessage
mainOnmessage ==
    /\ build = "worker"
    /\ toMain # <<>>
    /\ LET msg == Head(toMain).data IN
        IF msg.type = "UPDATE_DATA"
        THEN /\ monitors' = updateMonitorW(monitors, msg.monitorId,
                                           [previousData |-> msg.data])
             /\ store' = JSONstringify(monitors')
             /\ toasts' = <<Toast("success",
                     "Update received for " \o msg.monitorId)>>
        ELSE /\ toasts' = <<Toast("error",
                     "Error in " \o msg.monitorId \o ": " \o msg.error)>>
             /\ UNCHANGED <<monitors, store>>
    /\ toMain' = Tail(toMain)
    /\ polled' = <<>>
    /\ UNCHANGED <<call, build, clock, intervals, nextIntervalId,
                   timers, inflight, workerMonitors, toWorker>>
    /\ Budgets

\* part_000: the page is loaded again, with a new worker; the mount effect
\* restores the registry.
reloadW ==
    /\ build = "worker"
    /\ reloads < MaxReloads
    /\ reloads' = reloads + 1
    /\ monitors' = JSONparse(store)
    /\ store' = JSONstringify(monitors')
    /\ nextIntervalId' = 1
    /\ timers' = {}
    /\ inflight' = <<>>
    /\ workerMonitors' = <<>>
    /\ toWorker' = <<>>
    /\ toMain' = <<>>
    /\ toasts' = <<>>
    /\ polled' = <<>>
    /\ UNCHANGED <<call, build, clock, intervals, edits, ticks>>

(***************************************************************************)
(* The specification.                                                       *)
(***************************************************************************)
NoCall == [fn |-> "none"]

Mounted ==
    /\ clock = 1
    /\ store = JSONstringify(<<>>)
    /\ monitors = <<>>
    /\ intervals = NoIntervals
    /\ nextIntervalId = 1
    /\ timers = {}
    /\ inflight = <<>>
    /\ workerMonitors = <<>>
    /\ toWorker = <<>>
    /\ toMain = <<>>
    /\ toasts = <<>>
    /\ polled = <<>>
    /\ edits = 0
    /\ ticks = 0
    /\ reloads = 0

Init ==
    /\ build \in {"page", "worker"}
    /\ Mounted
    /\ call = NoCall

Next ==
    \/ addNewMonitor
    \/ editMonitor
    \/ deleteMonitor
    \/ toggleMonitor
    \/ timerFires
    \/ fetchReturns
    \/ reload
    \/ editMonitorW
    \/ deleteMonitorW
    \/ toggleMonitorW
    \/ workerOnmessage
    \/ workerTimerFires
    \/ workerFetchReturns
    \/ mainOnmessage
    \/ reloadW

Spec == Init /\ [][Next]_vars

(***************************************************************************)
(* The pure functions of part_001 on their own: one call of                 *)
(* extractRelevantData, getSlugFromData or getNameFromData on a parsed      *)
(* body and a filter drawn from the sets below.                             *)
(***************************************************************************)
\* Objects with any of the given keys, each key with any of its values.
ObjectsOver(keys, values) ==
    {Obj(fields) : fields \in UNION {[present -> values] : present \in SUBSET keys}}

\* Entries of a list: id and name, each absent, "a" or "b".
Entries == ObjectsOver({"id", "name"}, {"a", "b"})

\* Records with the fields a slug or a display name is read from, each absent,
\* empty or set.
Labelled ==
    {Obj(fields) : fields \in UNION {
        {f \in [present -> {"", "s", "n", "d", "t"}] :
            \A k \in present : f[k] \in {"", SubSeq(k, 1, 1)}} :
        present \in SUBSET {"slug", "name", "displayName", "title"}}}

RECURSIVE Lists(_)
Lists(len) ==
    IF len = 0 THEN {<<>>}
    ELSE Lists(len - 1) \cup
         {Append(items, entry) : items \in Lists(len - 1), entry \in Entries}

Datas ==
    {Null, Num}
    \cup Entries
    \cup Labelled
    \cup {Arr(items) : items \in Lists(MaxItems)}
    \cup {Obj([queues |-> Arr(items)]) : items \in Lists(MaxItems)}
    \cup {Obj([queues |-> queues, id |-> "a"]) :
            queues \in {Null, Num, Obj([name |-> "a"])}}

Ids == {"", "a", "z"}

PureInit ==
    /\ build = "page"
    /\ Mounted
    /\ call \in [fn : {"input"}, data : Datas, id : Ids]

callExtractRelevantData ==
    /\ call.fn = "input"
    /\ call' = [fn |-> "extractRelevantData", data |-> call.data, id |-> call.id,
                result |-> extractRelevantData(call.data, call.id)]
    /\ UNCHANGED app

callGetSlugFromData ==
    /\ call.fn = "input"
    /\ call' = [fn |-> "getSlugFromData", data |-> call.data, id |-> call.id,
                result |-> getSlugFromData(call.data)]
    /\ UNCHANGED app

callGetNameFromData ==
    /\ call.fn = "input"
    /\ call' = [fn |-> "getNameFromData", data |-> call.data, id |-> call.id,
                result |-> getNameFromData(call.data)]
    /\ UNCHANGED app

PureNext ==
    \/ callExtractRelevantData
    \/ callGetSlugFromData
    \/ callGetNameFromData

PureSpec == PureInit /\ [][PureNext]_vars

(***************************************************************************)
(* Properties.                                                              *)
(***************************************************************************)
TimersOf(id) == {t \in timers : t.monitor.id = id}
AllIds == {ToString(n) : n \in 1..MaxClock}
EntriesOf(ms, id) == {i \in 1..Len(ms) : ms[i].id = id}
Count(seq, x) == Cardinality({i \in 1..Len(seq) : seq[i] = x})

\* The record a response yields for the closure `monitor`, Null when the
\* poll cycle fails before it has one.
RecordOf(monitor, response) ==
    IF response.rejected \/ ~response.ok THEN Null
    ELSE IF ParseText(response.text).thrown THEN Null
    ELSE LET relevantData == extractRelevantData(ParseText(response.text).data,
                                                 monitor.filterId)
         IN  IF relevantData = TypeError THEN Null ELSE relevantData

\* C1: every monitor id has at most one active recurring timer, whatever
\* start, stop, edit, delete and restore operations came before.
C1_AtMostOneTimerPerId ==
    \A id \in AllIds : Cardinality(TimersOf(id)) <= 1

\* C2: a monitor's isRunning is true exactly if an active recurring timer
\* exists for its id (judged when no message to the worker is in flight).
C2_RunningIffTimer ==
    toWorker = <<>> =>
        \A i \in 1..Len(monitors) :
            monitors[i].isRunning <=> TimersOf(monitors[i].id) # {}

\* C3: when a poll cycle of a running monitor (the only one with its id)
\* extracts a record whose slug differs from the slug of the stored snapshot,
\* it stores a lastDifference from the stored slug to the new one, with
\* url = endpointUrl/slug, and the record as the new snapshot.
C3_SlugChangeStored ==
    [][\A i \in 1..Len(inflight), response \in Responses :
        fetchReturnsWith(i, response) =>
            LET record == RecordOf(inflight[i].monitor, response) IN
            \A k \in EntriesOf(monitors, inflight[i].monitor.id) :
                (/\ EntriesOf(monitors, monitors[k].id) = {k}
                 /\ monitors[k].isRunning
                 /\ Truthy(record)
                 /\ Truthy(monitors[k].previousData)
                 /\ getSlugFromData(record) #
                        getSlugFromData(monitors[k].previousData))
                => /\ monitors'[k].previousData = record
                   /\ monitors'[k].differences.kind # "null"
                   /\ monitors'[k].differences.slug_difference =
                        [previous |-> getSlugFromData(monitors[k].previousData),
                         current |-> getSlugFromData(record)]
                   /\ monitors'[k].differences.url =
                        monitors[k].apiUrl \o "/" \o getSlugFromData(record)
      ]_vars

\* C4: when a poll cycle of a running monitor's endpoint extracts a record
\* and the monitor (the only one with its id) has no snapshot or a snapshot
\* with the same slug, it stores the record as the snapshot, emits no change
\* notification and leaves lastDifference as it was.
C4_SameSlugNoDifference ==
    [][\A i \in 1..Len(inflight), response \in Responses :
        fetchReturnsWith(i, response) =>
            LET record == RecordOf(inflight[i].monitor, response) IN
            \A k \in EntriesOf(monitors, inflight[i].monitor.id) :
                (/\ EntriesOf(monitors, monitors[k].id) = {k}
                 /\ monitors[k].isRunning
                 /\ monitors[k].apiUrl = inflight[i].monitor.apiUrl
                 /\ Truthy(record)
                 /\ \/ ~Truthy(monitors[k].previousData)
                    \/ getSlugFromData(record) =
                        getSlugFromData(monitors[k].previousData))
                => /\ monitors'[k].previousData = record
                   /\ monitors'[k].differences = monitors[k].differences
                   /\ \A n \in 1..Len(toasts') : toasts'[n].level # "success"
      ]_vars

\* The step in which a start request takes effect: startMonitor in the page
\* build, the worker's handling of START_MONITOR in the worker build.
StartsIn(monitor) ==
    \/ toggleMonitorStart(monitor)
    \/ /\ workerOnmessage
       /\ Head(toWorker).type = "START_MONITOR"
       /\ Head(toWorker).monitor.id = monitor.id
       /\ EntriesOf(workerMonitors, monitor.id) = {}

\* C5: starting a monitor that is not running begins exactly one poll cycle
\* at once, schedules one recurring cycle every intervalSeconds and leaves
\* isRunning true.
C5_StartPollsOnceAndSchedules ==
    [][\A k \in 1..Len(monitors) :
        StartsIn(monitors[k]) =>
            /\ polled' = <<monitors[k].id>>
            /\ \E t \in timers' \ timers :
                /\ timers' = timers \cup {t}
                /\ t.monitor.id = monitors[k].id
                /\ t.ms = Times1000(monitors[k].interval)
            /\ monitors'[k].isRunning
      ]_vars

\* C6: once a monitor is stopped no poll cycle begins for its id until it is
\* started again: a timer only fires for an id with a running entry (or, after
\* a delete, with no entry).
C6_NoPollWhileStopped ==
    [][\A t \in timers :
        (timerFiresOf(t) \/ workerTimerFiresOf(t)) =>
            \/ EntriesOf(monitors, t.monitor.id) = {}
            \/ \E k \in EntriesOf(monitors, t.monitor.id) :
                    monitors[k].isRunning
      ]_vars

\* C7: an edit of name, endpointUrl, filterKey or intervalSeconds on a
\* running monitor leaves it stopped: no timer and isRunning false.
C7_EditStops ==
    [][\A id \in MonitorIds, updates \in EditUpdates :
        (editMonitorTo(id, updates) \/ editMonitorWTo(id, updates)) =>
            \A k \in EntriesOf(monitors, id) :
                monitors[k].isRunning =>
                    /\ TimersOf(id)' = {}
                    /\ ~monitors'[k].isRunning
      ]_vars

\* C8: after delete(id) the id is absent from the registry and no timer tick
\* for it fires: a timer only fires for an id that is in the registry.
C8_NoTickAfterDelete ==
    [][/\ \A id \in MonitorIds :
            (deleteMonitorOf(id) \/ deleteMonitorWOf(id)) =>
                EntriesOf(monitors', id) = {}
       /\ \A t \in timers :
            (timerFiresOf(t) \/ workerTimerFiresOf(t)) =>
                EntriesOf(monitors, t.monitor.id) # {}
      ]_vars

\* C9: a page load starts every monitor saved as running exactly once: one
\* immediate poll cycle, one recurring timer for its id, isRunning true.
C9_RestoreStartsOnce ==
    [][(reload \/ reloadW) =>
        \A k \in 1..Len(JSONparse(store)) :
            JSONparse(store)[k].isRunning =>
                /\ Count(polled', JSONparse(store)[k].id) = 1
                /\ Cardinality(TimersOf(JSONparse(store)[k].id)') = 1
                /\ monitors'[k].isRunning
      ]_vars

\* C10: a poll cycle for a monitor with an empty endpointUrl emits a
\* validation error naming the monitor, issues no request, changes no
\* snapshot or difference and leaves the timer active.
C10_EmptyUrlAborts ==
    [][\A t \in timers :
        ((timerFiresOf(t) \/ workerTimerFiresOf(t)) /\ t.monitor.apiUrl = "")
        => /\ toasts' = <<Toast("error",
                    "Please enter an API URL for " \o t.monitor.name)>>
           /\ inflight' = inflight
           /\ monitors' = monitors
           /\ t \in timers'
      ]_vars

(***************************************************************************)
(* Failed poll cycles.                                                      *)
(***************************************************************************)
\* The poll cycle of the closure `monitor` fails on this response: network
\* failure, non-2xx status, unparsable body, or nothing extracted.
Fails(monitor, response) == ~Truthy(RecordOf(monitor, response))

\* The step applies the failure of a poll cycle: in the page build the rest
\* of fetchData, in the worker build the catch of the timer callback and the
\* page's handling of the ERROR message.
PageCycleFails(i, response) ==
    /\ fetchReturnsWith(i, response)
    /\ Fails(inflight[i].monitor, response)

WorkerCycleFails ==
    /\ workerFetchReturns
    /\ toMain'[Len(toMain')].data.type = "ERROR"

ErrorHandled ==
    /\ mainOnmessage
    /\ Head(toMain).data.type = "ERROR"

\* The messages fetchData reports a failed cycle of the monitor `name` with.
ErrorTexts(name) ==
    {"Error in " \o name \o ": " \o message : message \in
        {"Failed to fetch", "HTTP error! status: 500",
         "Failed to parse response data", "Unsupported response format",
         "data.queues.find is not a function"}}
    \cup {"No data found for the specified ID in " \o name}

\* C11: a poll cycle that fails (network failure, non-2xx status, unparsable
\* body, filter matching nothing) cancels no recurring timer, of its own
\* monitor or of another: every timer is still there to fire at its next tick.
C11_FailureKeepsTimers ==
    [][/\ \A i \in 1..Len(inflight), response \in Responses :
            PageCycleFails(i, response) =>
                /\ timers' = timers
                /\ intervals' = intervals
       /\ (WorkerCycleFails \/ ErrorHandled) =>
                /\ timers' = timers
                /\ workerMonitors' = workerMonitors
      ]_vars

\* A failed cycle has just been reported while a timer is active.
C11_FailedWithTimer ==
    /\ timers # {}
    /\ polled = <<>>
    /\ toasts # <<>>
    /\ toasts[1].level = "error"

FirstWith(items, filterKey, keys) ==
    LET matching == {n \in 1..Len(items) :
                        \E k \in keys : Get(items[n], k) = filterKey}
    IN  IF matching = {} THEN Null
        ELSE items[CHOOSE n \in matching : \A m \in matching : n <= m]

\* extractRecord as the specification words it.
extractRecord(body, filterKey) ==
    IF body.kind = "object" /\ "queues" \in DOMAIN body.fields
       /\ body.fields.queues.kind = "array"
    THEN IF filterKey # ""
         THEN FirstWith(body.fields.queues.items, filterKey, {"name"})
         ELSE body.fields.queues
    ELSE IF body.kind = "array"
    THEN IF filterKey # ""
         THEN FirstWith(body.items, filterKey, {"id", "name"})
         ELSE body
    ELSE IF body.kind = "object"
    THEN IF filterKey = "" \/ Get(body, "id") = filterKey
                          \/ Get(body, "name") = filterKey
         THEN body ELSE Null
    ELSE Null

\* C12: extractRelevantData(body, filterKey) is extractRecord(body, filterKey):
\* of a queues list or a list the entry the filter names or the whole list, of
\* a single record the record if the filter is unset or names it, null
\* otherwise and when the filter matches nothing.
C12_ExtractEqualsReference ==
    call.fn = "extractRelevantData" =>
        call.result = extractRecord(call.data, call.id)

\* The first of the fields that is present in the record, null when none is.
FirstPresent(record, keys) ==
    IF \E n \in 1..Len(keys) : keys[n] \in DOMAIN record.fields
    THEN record.fields[keys[CHOOSE n \in 1..Len(keys) :
            /\ keys[n] \in DOMAIN record.fields
            /\ \A m \in 1..(n - 1) : keys[m] \notin DOMAIN record.fields]]
    ELSE JSNull

\* The first of the fields that is present in the record and not empty, null
\* when none is.
FirstNonEmpty(record, keys) ==
    LET set == {n \in 1..Len(keys) :
                    /\ keys[n] \in DOMAIN record.fields
                    /\ record.fields[keys[n]] # ""}
    IN  IF set = {} THEN JSNull
        ELSE record.fields[keys[CHOOSE n \in set : \A m \in set : n <= m]]

\* C17 as claimed: the slug of a record is its slug when that field is
\* present, else its name when present, else null, and the display name is
\* its name, else displayName, else title, else null, by presence: a present
\* but empty field is used.
C17_FirstPresentField ==
    call.fn \in {"getSlugFromData", "getNameFromData"}
    /\ call.data.kind = "object"
    => call.result =
        IF call.fn = "getSlugFromData"
        THEN FirstPresent(call.data, <<"slug", "name">>)
        ELSE FirstPresent(call.data, <<"name", "displayName", "title">>)

\* C17 as amended: the slug of a record is its slug when that field is
\* present and not empty, else its name when present and not empty, else
\* null, and the display name is the first of name, displayName and title
\* that is present and not empty, else null.
C17_FirstNonEmptyField ==
    call.fn \in {"getSlugFromData", "getNameFromData"}
    /\ call.data.kind = "object"
    => call.result =
        IF call.fn = "getSlugFromData"
        THEN FirstNonEmpty(call.data, <<"slug", "name">>)
        ELSE FirstNonEmpty(call.data, <<"name", "displayName", "title">>)

\* The slug of a record with an empty slug and a name has been computed.
C17_EmptySlugSkipped ==
    /\ call.fn = "getSlugFromData"
    /\ call.data.kind = "object"
    /\ Get(call.data, "slug") = ""
    /\ Get(call.data, "name") = "n"
    /\ call.result = "n"

(***************************************************************************)
(* Persistence and identity.                                                *)
(***************************************************************************)
\* C13: after every mutation of the registry the store holds exactly the
\* current monitor configs, and a page load restores exactly what was last
\* stored: no stored entry is lost or altered by startup.
C13_StoreIsRegistry ==
    [][/\ JSONparse(store') = monitors'
       /\ (reload \/ reloadW) => monitors' = JSONparse(store)
      ]_vars

\* The ids of the registry, in order.
IdSeq(ms) == [i \in 1..Len(ms) |-> ms[i].id]

\* C14: the monitors of the registry have pairwise distinct ids, and no
\* operation changes the id of a monitor: a step keeps the ids, appends the
\* id of a created monitor, or removes those of a deleted one.
C14_UniqueImmutableIds ==
    [][/\ \A i, j \in 1..Len(monitors') :
            monitors'[i].id = monitors'[j].id => i = j
       /\ \/ IdSeq(monitors') = IdSeq(monitors)
          \/ /\ \E now \in clock..MaxClock : addNewMonitorAt(now)
             /\ SubSeq(IdSeq(monitors'), 1, Len(monitors)) = IdSeq(monitors)
          \/ \E id \in MonitorIds :
                /\ deleteMonitorOf(id) \/ deleteMonitorWOf(id)
                /\ IdSeq(monitors') =
                        SelectSeq(IdSeq(monitors), LAMBDA other : other # id)
      ]_vars

(***************************************************************************)
(* Poll results.                                                            *)
(***************************************************************************)
HasDifference(monitor) == "slug_difference" \in DOMAIN monitor.differences

\* The entry k is stopped: isRunning false and no timer for its id.
Stopped(k) ==
    /\ ~monitors[k].isRunning
    /\ TimersOf(monitors[k].id) = {}

\* What C16 says of the entry k when the record arrives for it.
AppliedWhileStopped(k, record) ==
    /\ monitors'[k].previousData = record
    /\ getSlugFromData(record) # getSlugFromData(monitors[k].previousData)
       /\ Truthy(monitors[k].previousData)
       => /\ HasDifference(monitors'[k])
          /\ monitors'[k].differences.slug_difference =
                [previous |-> getSlugFromData(monitors[k].previousData),
                 current |-> getSlugFromData(record)]
    /\ ~monitors'[k].isRunning
    /\ TimersOf(monitors[k].id)' = {}

\* C16: the result of a fetch that completes after its monitor was stopped is
\* still written to the monitor's lastSnapshot, and to its lastDifference when
\* the slug changed, and the monitor stays stopped: isRunning false, no timer.
C16_ResultAfterStopApplied ==
    [][/\ \A i \in 1..Len(inflight), response \in Responses :
            fetchReturnsWith(i, response) /\ ~inflight[i].deleted =>
                LET record == RecordOf(inflight[i].monitor, response) IN
                \A k \in EntriesOf(monitors, inflight[i].monitor.id) :
                    Stopped(k) /\ Truthy(record)
                    /\ EntriesOf(monitors, monitors[k].id) = {k}
                    => AppliedWhileStopped(k, record)
       /\ mainOnmessage /\ ~Head(toMain).deleted
          /\ Head(toMain).data.type = "UPDATE_DATA" =>
                \A k \in EntriesOf(monitors, Head(toMain).data.monitorId) :
                    Stopped(k) /\ toWorker = <<>>
                    /\ EntriesOf(monitors, monitors[k].id) = {k}
                    => AppliedWhileStopped(k, Head(toMain).data.data)
      ]_vars

\* Between the two states only lastSnapshot and lastDifference of one
\* monitor, whose id is `id`, differ.
OnlyResultOf(id) ==
    /\ Len(monitors') = Len(monitors)
    /\ Cardinality({k \in 1..Len(monitors) : monitors'[k] # monitors[k]}) <= 1
    /\ \A k \in 1..Len(monitors) :
        IF monitors[k].id = id
        THEN /\ monitors'[k].id = monitors[k].id
             /\ monitors'[k].name = monitors[k].name
             /\ monitors'[k].apiUrl = monitors[k].apiUrl
             /\ monitors'[k].filterId = monitors[k].filterId
             /\ monitors'[k].interval = monitors[k].interval
             /\ monitors'[k].isRunning = monitors[k].isRunning
        ELSE monitors'[k] = monitors[k]

\* C18: applying a poll result for monitor m changes only m's lastSnapshot and
\* lastDifference: m's id, name, endpointUrl, filterKey, intervalSeconds and
\* isRunning and the entries of the other monitors stay as they were, and no
\* entry is added or removed.
C18_ResultChangesOnlyItsMonitor ==
    [][/\ \A i \in 1..Len(inflight), response \in Responses :
            fetchReturnsWith(i, response) =>
                OnlyResultOf(inflight[i].monitor.id)
       /\ mainOnmessage => OnlyResultOf(Head(toMain).data.monitorId)
      ]_vars

\* C19: the result of a fetch (or the worker's message) for an id whose
\* monitor was deleted while the fetch was in flight is discarded: it changes
\* no entry of the registry and adds none.
C19_DeletedResultDiscarded ==
    [][/\ \A i \in 1..Len(inflight), response \in Responses :
            fetchReturnsWith(i, response) /\ inflight[i].deleted =>
                monitors' = monitors
       /\ mainOnmessage /\ Head(toMain).deleted => monitors' = monitors
      ]_vars

\* C20: a lastDifference of the registry has a previous slug different from
\* its current slug, and a monitor has no lastDifference as long as it has no
\* snapshot.
C20_DifferenceIsAChange ==
    \A k \in 1..Len(monitors) :
        HasDifference(monitors[k]) =>
            /\ monitors[k].differences.slug_difference.previous #
                    monitors[k].differences.slug_difference.current
            /\ Truthy(monitors[k].previousData)

\* A poll cycle has written a lastDifference.
C20_DifferenceWritten ==
    \E k \in 1..Len(monitors) : HasDifference(monitors[k])

====
